---- MODULE Spec2Model ----
(***************************************************************************)
(* Model of src/src/index.ts: the UnikhornCoatCalculator client.           *)
(*                                                                         *)
(* State: the client's mutable `language` field and the bag of method      *)
(* calls the client currently tracks (each an async call that is awaiting  *)
(* the transport, or settled and not yet collected by its caller).         *)
(*                                                                         *)
(* One action is one turn of the JavaScript event loop: the synchronous    *)
(* stretch that starts a call, or the arrival of a response together with  *)
(* the promise continuations it sets off (interceptor, the method's return *)
(* or catch, batchCalculate's loop up to its next await), which run in one *)
(* microtask drain with no other event in between.                         *)
(***************************************************************************)
EXTENDS Integers, Sequences, FiniteSets, Bags, TLC

\* Total number of requests the tracked calls may have to issue.
MaxLoad == 2

VARIABLES language, calls

vars == <<language, calls>>

\* ---------------------------------------------------------------- values

\* An optional value: None is JavaScript's undefined, Some(x) a present x.
None == <<>>
Some(x) == <<x>>

Languages == {"en", "fr"}

\* The shapes of allele pair validateGenes is given: absent, or of length
\* one, two or three.
PairShapes ==
  {None, Some(<<"E">>), Some(<<"E", "e">>), Some(<<"E", "e", "e">>)}

G1 ==
  [base |-> Some([extension |-> Some(<<"E", "e">>), agouti |-> Some(<<"A", "a">>)]),
   others |-> None, lang |-> None]
G2 ==
  [base |-> Some([extension |-> Some(<<"e", "e">>), agouti |-> Some(<<"a", "a">>)]),
   others |-> Some([dun |-> "DD"]), lang |-> Some("fr")]
NoBase == [base |-> None, others |-> None, lang |-> None]

GenesInputs == {G1, G2, NoBase}

ValidateInputs ==
  {NoBase} \cup
  {[base |-> Some([extension |-> e, agouti |-> a]), others |-> None, lang |-> None] :
     e \in PairShapes, a \in PairShapes}

OffspringInputs ==
  {[mother |-> G1, father |-> G2, kit_linkage |-> k[1], has_IDK |-> h, lang |-> k[2]] :
     h \in {None, Some(TRUE), Some(FALSE)},
     k \in {<<None, None>>, <<Some([mother |-> "KIT"]), Some("fr")>>}}

Items ==
  {[id |-> "a", genes |-> G1], [id |-> "b", genes |-> G2], [id |-> "c", genes |-> NoBase]}

HorsesInputs == UNION {[1..n -> Items] : n \in 0..MaxLoad}

\* ---------------------------------------------------------------- errors

NoAxiosResponse == None

UnikhornAPIError(message, statusCode, response) ==
  [name |-> "UnikhornAPIError", message |-> message, statusCode |-> statusCode,
   response |-> response, isAxiosError |-> FALSE, axiosResponse |-> NoAxiosResponse,
   request |-> FALSE]

\* What axios rejects with: `response` present for an HTTP error status,
\* only `request` for a request that got no answer.
AxiosError(axiosResponse, request) ==
  [name |-> "AxiosError", message |-> "Request failed", statusCode |-> None,
   response |-> None, isAxiosError |-> TRUE, axiosResponse |-> axiosResponse,
   request |-> request]

\* What reading a property of undefined throws.
TypeError ==
  [name |-> "TypeError", message |-> "Cannot read properties of undefined",
   statusCode |-> None, response |-> None, isAxiosError |-> FALSE,
   axiosResponse |-> NoAxiosResponse, request |-> FALSE]

handleErrorRethrow(error) ==
  IF error.isAxiosError /\ error.axiosResponse # None
    THEN LET r == error.axiosResponse[1] IN
         UnikhornAPIError(
           IF r.data.message # None /\ r.data.message[1] # ""
             THEN r.data.message[1] ELSE "API request failed",
           Some(r.status), Some(r.data))
    ELSE IF error.isAxiosError /\ error.request
      THEN UnikhornAPIError("No response from server", Some(0), None)
      ELSE error

\* handleError (it always throws; the model returns what it throws).
handleError(error) ==
  IF error.isAxiosError /\ error.axiosResponse # None
    THEN LET r == error.axiosResponse[1] IN
         UnikhornAPIError(
           IF r.data.message # None /\ r.data.message[1] # ""
             THEN r.data.message[1] ELSE "API request failed",
           Some(r.status), Some(r.data))
    ELSE IF error.isAxiosError /\ error.request
      THEN UnikhornAPIError("No response from server", Some(0), None)
      ELSE UnikhornAPIError("An unexpected error occurred", None, None)

notAvailableWithStatus ==
  UnikhornAPIError("This endpoint is not available in the current API version",
                   Some(0), None)

\* The error getAllCoatColors and getUsageStats throw.
notAvailable ==
  UnikhornAPIError("This endpoint is not available in the current API version",
                   None, None)

\* --------------------------------------------------------- serialization

\* seq[k] of a JavaScript array (1-based here); a missing element reads as
\* undefined, which URLSearchParams.append turns into the text "undefined".
At(seq, k) == IF k <= Len(seq) THEN seq[k] ELSE "undefined"

\* JSON.stringify of an array of strings.
stringifyArray(seq) ==
  IF Len(seq) = 0 THEN "[]"
  ELSE LET RECURSIVE tail(_)
           tail(k) == IF k > Len(seq) THEN "]"
                      ELSE ",\"" \o seq[k] \o "\"" \o tail(k + 1)
       IN "[\"" \o seq[1] \o "\"" \o tail(2)

\* JSON.stringify of an OthersGenes / kit_linkage object with one key.
stringifyOthers(o) == "{\"dun\":\"" \o o.dun \o "\"}"
stringifyKitLinkage(k) == "{\"mother\":[\"" \o k.mother \o "\"]}"

stringifyBase(b) ==
  LET ext == IF b.extension = None THEN <<>>
             ELSE <<"\"extension\":" \o stringifyArray(b.extension[1])>>
      ago == IF b.agouti = None THEN <<>>
             ELSE <<"\"agouti\":" \o stringifyArray(b.agouti[1])>>
      parts == ext \o ago
  IN "{" \o (IF Len(parts) = 0 THEN ""
             ELSE IF Len(parts) = 1 THEN parts[1]
             ELSE parts[1] \o "," \o parts[2]) \o "}"

\* JSON.stringify of a HorseGenes object: undefined properties are left out.
stringifyGenes(g) ==
  LET base   == IF g.base = None THEN <<>>
                ELSE <<"\"base\":" \o stringifyBase(g.base[1])>>
      others == IF g.others = None THEN <<>>
                ELSE <<"\"others\":" \o stringifyOthers(g.others[1])>>
      lang   == IF g.lang = None THEN <<>>
                ELSE <<"\"lang\":\"" \o g.lang[1] \o "\"">>
      parts  == base \o others \o lang
      RECURSIVE join(_)
      join(k) == IF k > Len(parts) THEN ""
                 ELSE (IF k > 1 THEN "," ELSE "") \o parts[k] \o join(k + 1)
  IN "{" \o join(1) \o "}"

\* Boolean.prototype.toString.
booleanToString(b) == IF b THEN "true" ELSE "false"

langPreferringClient(lang, clientLanguage) ==
  IF clientLanguage # "" THEN clientLanguage ELSE lang[1]

\* `lang || this.language`: the per-call value unless it is falsy.
effectiveLang(lang, clientLanguage) ==
  IF lang # None /\ lang[1] # "" THEN lang[1] ELSE clientLanguage

\* Building the single-coat body reads genes.base.extension[0] and
\* genes.base.agouti[0]: a TypeError when base or either pair is undefined.
singleCoatBuildThrows(genes) ==
  \/ genes.base = None
  \/ genes.base[1].extension = None
  \/ genes.base[1].agouti = None

\* The URLSearchParams of calculateSingleCoat, as its list of (key, value).
singleCoatBody(genes, clientLanguage) ==
  LET b == genes.base[1] IN
  << <<"base[extension][]", At(b.extension[1], 1)>>,
     <<"base[extension][]", At(b.extension[1], 2)>>,
     <<"base[agouti][]", At(b.agouti[1], 1)>>,
     <<"base[agouti][]", At(b.agouti[1], 2)>>,
     <<"lang", effectiveLang(genes.lang, clientLanguage)>> >>
  \o (IF genes.others # None
        THEN << <<"others", stringifyOthers(genes.others[1])>> >>
        ELSE <<>>)

hasIDKFieldStringified(has_IDK) ==
  << <<"has_IDK", IF has_IDK = None THEN "undefined"
                  ELSE booleanToString(has_IDK[1])>> >>

\* Lines 171-174: the has_IDK field, only when the caller supplied it.
hasIDKField(has_IDK) ==
  IF has_IDK # None
    THEN << <<"has_IDK", booleanToString(has_IDK[1])>> >>
    ELSE <<>>

\* The URLSearchParams of calculateOffspring.
offspringBody(offspring, clientLanguage) ==
  << <<"mother", stringifyGenes(offspring.mother)>>,
     <<"father", stringifyGenes(offspring.father)>>,
     <<"lang", effectiveLang(offspring.lang, clientLanguage)>> >>
  \o (IF offspring.kit_linkage # None
        THEN << <<"kit_linkage", stringifyKitLinkage(offspring.kit_linkage[1])>> >>
        ELSE <<>>)
  \o hasIDKField(offspring.has_IDK)

\* ------------------------------------------------------------ validation

pairIsWrong(pair) == pair = None \/ Len(pair[1]) # 2

validationResult(errors) ==
  [valid |-> Len(errors) = 0,
   errors |-> IF Len(errors) > 0 THEN Some(errors) ELSE None]

validateGenesShortCircuit(genes) ==
  validationResult(
    IF genes.base = None THEN <<"Base genes are required">>
    ELSE IF pairIsWrong(genes.base[1].extension)
      THEN <<"Extension gene must have exactly 2 alleles">>
    ELSE IF pairIsWrong(genes.base[1].agouti)
      THEN <<"Agouti gene must have exactly 2 alleles">>
    ELSE <<>>)

\* validateGenes: what its promise resolves with.
validateGenes(genes) ==
  validationResult(
    IF genes.base = None THEN <<"Base genes are required">>
    ELSE (IF pairIsWrong(genes.base[1].extension)
            THEN <<"Extension gene must have exactly 2 alleles">> ELSE <<>>)
      \o (IF pairIsWrong(genes.base[1].agouti)
            THEN <<"Agouti gene must have exactly 2 alleles">> ELSE <<>>))

\* ------------------------------------------------------------- transport

\* How a request through the axios instance ends, before any interceptor.
Success(d) == [ok |-> TRUE, data |-> Some(d), error |-> None]
Failure(e) == [ok |-> FALSE, data |-> None, error |-> Some(e)]

\* The payload the remote API answers a request with; the client passes it on
\* untouched, so an opaque token naming the request stands for it.
ResponseData(req) ==
  IF req.endpoint = "/coats/result"
    THEN "coat of " \o req.body[1][2] \o req.body[2][2] \o req.body[3][2] \o req.body[4][2]
  ELSE IF req.endpoint = "/coats/generateChild" THEN "offspring"
  ELSE "info"

InvalidAllele ==
  AxiosError(Some([status |-> 422, data |-> [message |-> Some("invalid allele")]]), TRUE)

\* An error status whose body has no message field.
BareServerError ==
  AxiosError(Some([status |-> 500, data |-> [message |-> None]]), TRUE)

NoResponseError == AxiosError(NoAxiosResponse, TRUE)

\* The HTTP errors the model lets the remote API answer with: the body
\* without a message is tried on the info endpoint only.
HttpErrors(req) ==
  IF req.endpoint = "/coats/api-info" THEN {InvalidAllele, BareServerError}
  ELSE {InvalidAllele}

TransportOutcomes(req) ==
  {Success(ResponseData(req))}
    \cup {Failure(e) : e \in HttpErrors(req) \cup {NoResponseError}}

\* The response interceptor installed by the constructor: a response passes
\* through, a rejection goes through handleError.
responseInterceptor(outcome) ==
  IF outcome.ok THEN outcome ELSE Failure(handleError(outcome.error[1]))

\* `try { ...; return response.data } catch (error) { throw this.handleError(error) }`
\* of calculateSingleCoat, calculateOffspring and getApiInfo.
rethrowMapped(outcome) ==
  IF outcome.ok THEN outcome ELSE Failure(handleError(outcome.error[1]))

\* ----------------------------------------------------------------- calls

NoOffspring ==
  [mother |-> NoBase, father |-> NoBase, kit_linkage |-> None, has_IDK |-> None,
   lang |-> None]

\* A call of a public method: its arguments, where it stands (pc), the
\* requests it has handed to the axios instance (reqs, with the language the
\* client had when each body was built and how each ended), and what it
\* settled with.  batchCalculate also has its loop index i, its local
\* `results`, and the list it returned.
NewCall(method) ==
  [method |-> method, genes |-> NoBase, offspring |-> NoOffspring, horses |-> <<>>,
   pc |-> "await", i |-> 0, results |-> <<>>, reqs |-> <<>>, data |-> None, returned |-> None, validation |-> None, error |-> None]

Request(verb, endpoint, body, item) ==
  [verb |-> verb, endpoint |-> endpoint, body |-> body, item |-> item,
   langAtBuild |-> language, outcome |-> None]

Awaiting(c, req) == [c EXCEPT !.pc = "await", !.reqs = Append(@, req)]

\* The promise of an async method settles with the outcome.
Settled(c, outcome) ==
  IF outcome.ok
    THEN [c EXCEPT !.pc = "resolved", !.data = outcome.data]
    ELSE [c EXCEPT !.pc = "rejected", !.error = outcome.error]

IsSettled(c) == c.pc \in {"resolved", "rejected"}

Load(c) ==
  IF c.method = "batchCalculate" /\ Len(c.horses) > 1 THEN Len(c.horses) ELSE 1

\* The requests the tracked calls may issue in total (a bag's cardinality
\* is the sum of its counts).
TotalLoad == BagCardinality([c \in DOMAIN calls |-> calls[c] * Load(c)])

CanAdmit(c) == TotalLoad + Load(c) <= MaxLoad

\* A settled promise is immutable and takes part in nothing further, so the
\* model keeps at most one of them: the caller takes it (collect) before
\* another call settles.
CanKeep(d) == IsSettled(d) => \A x \in BagToSet(calls) : ~IsSettled(x)

Admit(c) ==
  /\ CanKeep(c)
  /\ calls' = calls (+) SetToBag({c})

Replace(c, d) ==
  /\ CanKeep(d)
  /\ calls' = (calls (-) SetToBag({c})) (+) SetToBag({d})

\* --------------------------------------------------------------- actions

Init ==
  /\ language \in Languages
  /\ calls = EmptyBag

setLanguage(l) ==
  /\ language' = l
  /\ UNCHANGED calls

\* calculateSingleCoat: the body is built and posted before the first await;
\* a throw while building lands in the method's own catch.
calculateSingleCoat(genes) ==
  LET c == [NewCall("calculateSingleCoat") EXCEPT !.genes = genes] IN
  /\ CanAdmit(c)
  /\ IF singleCoatBuildThrows(genes)
       THEN Admit(Settled(c, rethrowMapped(Failure(TypeError))))
       ELSE Admit(Awaiting(c, Request("POST", "/coats/result",
                                      singleCoatBody(genes, language), 0)))
  /\ UNCHANGED language

calculateOffspring(offspring) ==
  LET c == [NewCall("calculateOffspring") EXCEPT !.offspring = offspring] IN
  /\ CanAdmit(c)
  /\ Admit(Awaiting(c, Request("POST", "/coats/generateChild",
                               offspringBody(offspring, language), 0)))
  /\ UNCHANGED language

getApiInfo ==
  LET c == NewCall("getApiInfo") IN
  /\ CanAdmit(c)
  /\ Admit(Awaiting(c, Request("GET", "/coats/api-info", <<>>, 0)))
  /\ UNCHANGED language

getAllCoatColors ==
  LET c == NewCall("getAllCoatColors") IN
  /\ CanAdmit(c)
  /\ Admit(Settled(c, Failure(notAvailable)))
  /\ UNCHANGED language

getUsageStats ==
  LET c == NewCall("getUsageStats") IN
  /\ CanAdmit(c)
  /\ Admit(Settled(c, Failure(notAvailable)))
  /\ UNCHANGED language

validateGenesCall(genes) ==
  LET c == [NewCall("validateGenes") EXCEPT !.genes = genes] IN
  /\ CanAdmit(c)
  /\ Admit([c EXCEPT !.pc = "resolved", !.validation = Some(validateGenes(genes))])
  /\ UNCHANGED language

batchCatchReturnsPartial(c, inner) ==
  [c EXCEPT !.pc = "resolved", !.returned = Some(c.results)]

\* batchCalculate's catch: `throw this.handleError(error)` on the rejection
\* of the calculateSingleCoat call it awaited.
batchCatch(c, inner) ==
  [c EXCEPT !.pc = "rejected", !.error = Some(handleError(inner.error[1]))]

batchStartItemWithNext(c, k) ==
  LET req(n) == Request("POST", "/coats/result",
                        singleCoatBody(c.horses[n].genes, language), n)
      first == Awaiting([c EXCEPT !.i = k], req(k))
  IN IF singleCoatBuildThrows(c.horses[k].genes)
       THEN batchCatch([c EXCEPT !.i = k], rethrowMapped(Failure(TypeError)))
       ELSE IF k < Len(c.horses) /\ ~singleCoatBuildThrows(c.horses[k + 1].genes)
         THEN Awaiting(first, req(k + 1))
         ELSE first

\* One iteration of batchCalculate's loop, up to its await: the call of
\* calculateSingleCoat(horse.genes) for item k either posts its request, or
\* throws while building it and rejects, which the loop's catch then maps.
batchStartItem(c, k) ==
  IF singleCoatBuildThrows(c.horses[k].genes)
    THEN batchCatch([c EXCEPT !.i = k], rethrowMapped(Failure(TypeError)))
    ELSE Awaiting([c EXCEPT !.i = k],
                  Request("POST", "/coats/result",
                          singleCoatBody(c.horses[k].genes, language), k))

pushResultFront(results, entry) == <<entry>> \o results

\* results.push({ id: horse.id, result })
pushResult(results, entry) == Append(results, entry)

\* batchCalculate after its await for item i settled with `inner`: push and
\* go on to the next item (or return results), or catch.
batchAfterItem(c, inner) ==
  IF inner.ok
    THEN LET pushed == [c EXCEPT !.results = pushResult(@, [id |-> c.horses[c.i].id,
                                                           result |-> inner.data[1]])]
         IN IF c.i < Len(c.horses)
              THEN batchStartItem(pushed, c.i + 1)
              ELSE [pushed EXCEPT !.pc = "resolved", !.returned = Some(pushed.results)]
    ELSE batchCatch(c, inner)

batchCalculate(horses) ==
  LET c == [NewCall("batchCalculate") EXCEPT !.horses = horses] IN
  /\ CanAdmit(c)
  /\ IF Len(horses) = 0
       THEN Admit([c EXCEPT !.pc = "resolved", !.returned = Some(c.results)])
       ELSE Admit(batchStartItem(c, 1))
  /\ UNCHANGED language

\* The transport settles request j of call c.  The response interceptor
\* runs, then the continuation of the method that awaits the request (its
\* return or its catch), and for a request of batchCalculate the loop's own
\* continuation after that.
respond(c, j, outcome) ==
  /\ c.pc = "await"
  /\ c.reqs[j].outcome = None
  /\ LET answered == [c EXCEPT !.reqs[j].outcome = Some(outcome)]
         seen == rethrowMapped(responseInterceptor(outcome))
     IN IF c.method = "batchCalculate"
          THEN Replace(c, batchAfterItem(answered, seen))
          ELSE Replace(c, Settled(answered, seen))
  /\ UNCHANGED language

\* The caller takes the settled promise; the client keeps nothing of it.
collect(c) ==
  /\ IsSettled(c)
  /\ calls' = calls (-) SetToBag({c})
  /\ UNCHANGED language

Next ==
  \/ \E l \in Languages : setLanguage(l)
  \/ \E genes \in GenesInputs : calculateSingleCoat(genes)
  \/ \E offspring \in OffspringInputs : calculateOffspring(offspring)
  \/ \E horses \in HorsesInputs : batchCalculate(horses)
  \/ getApiInfo
  \/ getAllCoatColors
  \/ getUsageStats
  \/ \E genes \in ValidateInputs : validateGenesCall(genes)
  \/ \E c \in BagToSet(calls) : \E j \in 1..Len(c.reqs) :
       \E outcome \in TransportOutcomes(c.reqs[j]) : respond(c, j, outcome)
  \/ \E c \in BagToSet(calls) : collect(c)

Spec == Init /\ [][Next]_vars

\* ---------------------------------------------------------------- claims

Calls == BagToSet(calls)

NetworkMethods ==
  {"calculateSingleCoat", "calculateOffspring", "batchCalculate", "getApiInfo"}

BatchCalls == {c \in Calls : c.method = "batchCalculate"}

LastReq(c) == c.reqs[Len(c.reqs)]

\* The values a body carries under `key`, in order.
FieldValues(body, key) ==
  LET idx == {k \in 1..Len(body) : body[k][1] = key}
      RECURSIVE gather(_)
      gather(k) == IF k > Len(body) THEN <<>>
                    ELSE (IF k \in idx THEN <<body[k][2]>> ELSE <<>>) \o gather(k + 1)
  IN gather(1)

InFlight(r) == r.outcome = None
Answered(r) == r.outcome # None /\ r.outcome[1].ok
Failed(r) == r.outcome # None /\ ~r.outcome[1].ok

IsAPIError(c) == c.error # None /\ c.error[1].name = "UnikhornAPIError"

\* The rejected network calls whose last request the server answered with an
\* HTTP error whose body has a message field.
RejectedByServerMessage ==
  {c \in Calls : /\ c.method \in NetworkMethods
                 /\ c.pc = "rejected"
                 /\ Len(c.reqs) > 0
                 /\ Failed(LastReq(c))
                 /\ LastReq(c).outcome[1].error[1].axiosResponse # None
                 /\ LastReq(c).outcome[1].error[1].axiosResponse[1].data.message # None}

\* C1: a network method answered with HTTP status s and a body carrying a
\* message m rejects with an APIError of message m, statusCode s and the raw
\* body as response.
C1_ServerMessageReachesCaller ==
  \A c \in RejectedByServerMessage :
    LET r == LastReq(c).outcome[1].error[1].axiosResponse[1] IN
    c.error = Some(UnikhornAPIError(r.data.message[1], Some(r.status), Some(r.data)))

\* C2: a network method whose request got no response rejects with an
\* APIError of statusCode 0 and message "No response from server".
C2_NoResponseReachesCaller ==
  \A c \in Calls :
    (/\ c.method \in NetworkMethods
     /\ c.pc = "rejected"
     /\ Len(c.reqs) > 0
     /\ Failed(LastReq(c))
     /\ LastReq(c).outcome[1].error[1].axiosResponse = None
     /\ LastReq(c).outcome[1].error[1].request)
    => /\ IsAPIError(c)
       /\ c.error[1].statusCode = Some(0)
       /\ c.error[1].message = "No response from server"

ItemFailed(c, k) ==
  \/ k <= c.i /\ singleCoatBuildThrows(c.horses[k].genes)
  \/ \E j \in 1..Len(c.reqs) : c.reqs[j].item = k /\ Failed(c.reqs[j])

FirstFailed(c, k) ==
  /\ ItemFailed(c, k)
  /\ \A m \in 1..(k - 1) : ~ItemFailed(c, m)

\* C4 as stated: when item k is the first to fail, the batch rejects with an
\* APIError, exactly k requests were sent, none for an item after k, and no
\* results are returned.
C4_FailFastExactlyK ==
  \A c \in BatchCalls : \A k \in 1..Len(c.horses) :
    (FirstFailed(c, k) /\ IsSettled(c)) =>
      /\ c.pc = "rejected"
      /\ IsAPIError(c)
      /\ c.returned = None
      /\ \A j \in 1..Len(c.reqs) : c.reqs[j].item <= k
      /\ Len(c.reqs) = k

\* C4, amended: when item k is the first to fail, the loop stops at k, the
\* batch rejects with an APIError and returns no results, no request is sent
\* for an item after k, and the requests sent number k when item k's request
\* failed and k - 1 when item k threw while its body was built.
C4_FailFast ==
  \A c \in BatchCalls : \A k \in 1..Len(c.horses) :
    FirstFailed(c, k) =>
      /\ c.i = k
      /\ c.pc = "rejected"
      /\ IsAPIError(c)
      /\ c.returned = None
      /\ \A j \in 1..Len(c.reqs) : c.reqs[j].item <= k
      /\ Len(c.reqs) = IF singleCoatBuildThrows(c.horses[k].genes) THEN k - 1 ELSE k

C4_Witness ==
  \E c \in BatchCalls :
    /\ c.pc = "rejected"
    /\ FirstFailed(c, 2)
    /\ Len(c.results) = 1
    /\ c.returned = None

\* C5: a batch whose items all succeed resolves with one {id, result} per
\* input item, in input order, the result being the response to that item's
\* request; the empty batch resolves with the empty list and no request.
C5_BatchResults ==
  \A c \in BatchCalls :
    c.pc = "resolved" =>
      /\ c.returned # None
      /\ Len(c.returned[1]) = Len(c.horses)
      /\ Len(c.reqs) = Len(c.horses)
      /\ \A n \in 1..Len(c.horses) :
           /\ c.returned[1][n].id = c.horses[n].id
           /\ c.reqs[n].body = singleCoatBody(c.horses[n].genes, c.reqs[n].langAtBuild)
           /\ Answered(c.reqs[n])
           /\ c.returned[1][n].result = c.reqs[n].outcome[1].data[1]

C5_Witness ==
  \E c \in BatchCalls :
    /\ c.pc = "resolved"
    /\ Len(c.horses) = 2
    /\ c.horses[1].id # c.horses[2].id
    /\ c.returned[1][1].result # c.returned[1][2].result

\* C6: a batch has at most one request in flight, its requests are issued in
\* input order, and each is issued only after the one before was answered
\* successfully.
C6_OneInFlight ==
  \A c \in BatchCalls :
    /\ Cardinality({j \in 1..Len(c.reqs) : InFlight(c.reqs[j])}) <= 1
    /\ \A j \in 1..Len(c.reqs) : c.reqs[j].item = j
    /\ \A j \in 1..(Len(c.reqs) - 1) : Answered(c.reqs[j])

C6_Witness ==
  \E c \in BatchCalls :
    /\ Len(c.reqs) = 2
    /\ Answered(c.reqs[1])
    /\ InFlight(c.reqs[2])

\* The lang the caller passed with the genes (or offspring) request r of call
\* c was built from.
CallLang(c, r) ==
  IF c.method = "calculateOffspring" THEN c.offspring.lang
  ELSE IF c.method = "batchCalculate" THEN c.horses[r.item].genes.lang
  ELSE c.genes.lang

LangRequests(c) ==
  {j \in 1..Len(c.reqs) : c.reqs[j].endpoint \in {"/coats/result", "/coats/generateChild"}}

\* C7: the lang field of a request is the per-call lang when the caller gave
\* one, and otherwise the client's language as it was when the body was
\* built, whatever setLanguage does afterwards.
C7_LangCaptured ==
  \A c \in Calls : \A j \in LangRequests(c) :
    LET r == c.reqs[j] IN
    FieldValues(r.body, "lang") =
      <<IF CallLang(c, r) # None THEN CallLang(c, r)[1] ELSE r.langAtBuild>>

C7_Witness ==
  \E c \in Calls : \E j \in LangRequests(c) :
    /\ InFlight(c.reqs[j])
    /\ CallLang(c, c.reqs[j]) = None
    /\ FieldValues(c.reqs[j].body, "lang") # <<language>>

HasLength2(pair) == pair # None /\ Len(pair[1]) = 2

InErrors(v, message) ==
  v.errors # None /\ \E n \in 1..Len(v.errors[1]) : v.errors[1][n] = message

\* C8: validateGenes issues no request; it resolves valid with errors
\* undefined exactly when base is present and both pairs have length 2; a
\* missing base gives "Base genes are required"; with base present each
\* wrong pair is flagged on its own.
C8_ValidateGenes ==
  \A c \in Calls :
    c.method = "validateGenes" =>
      /\ c.pc = "resolved"
      /\ c.reqs = <<>>
      /\ c.validation # None
      /\ LET v == c.validation[1]
             g == c.genes
         IN /\ v.valid <=> (/\ g.base # None
                            /\ HasLength2(g.base[1].extension)
                            /\ HasLength2(g.base[1].agouti))
            /\ v.valid <=> (v.errors = None)
            /\ g.base = None => v.errors = Some(<<"Base genes are required">>)
            /\ g.base # None =>
                 /\ InErrors(v, "Extension gene must have exactly 2 alleles")
                      <=> ~HasLength2(g.base[1].extension)
                 /\ InErrors(v, "Agouti gene must have exactly 2 alleles")
                      <=> ~HasLength2(g.base[1].agouti)
                 /\ ~InErrors(v, "Base genes are required")

C8_Witness ==
  \E c \in Calls :
    /\ c.method = "validateGenes"
    /\ c.genes.base # None
    /\ InErrors(c.validation[1], "Extension gene must have exactly 2 alleles")
    /\ InErrors(c.validation[1], "Agouti gene must have exactly 2 alleles")

C10_HasIDKTriState ==
  \A c \in Calls :
    c.method = "calculateOffspring" =>
      \A j \in 1..Len(c.reqs) :
        FieldValues(c.reqs[j].body, "has_IDK") =
          IF c.offspring.has_IDK = None THEN <<>>
          ELSE IF c.offspring.has_IDK[1] THEN <<"true">> ELSE <<"false">>

C10_Witness ==
  \E c \in Calls : \E d \in Calls :
    /\ c.method = "calculateOffspring" /\ d.method = "calculateOffspring"
    /\ c.offspring.has_IDK = None /\ Len(c.reqs) = 1
    /\ FieldValues(c.reqs[1].body, "has_IDK") = <<>>
    /\ d.offspring.has_IDK = Some(FALSE) /\ Len(d.reqs) = 1
    /\ FieldValues(d.reqs[1].body, "has_IDK") = <<"false">>

====
